---- MODULE Spec2Model ----
(***************************************************************************)
(* State-machine model of local_daypo.py: the bank decoder                 *)
(* (TestController.load_new_test_from_file), the session engine            *)
(* (TestController, and the TestFrame handlers that drive it) and the      *)
(* progress store (save_progress / check_and_load_progress).               *)
(*                                                                         *)
(* Strings that the code only compares are TLA+ strings.  Strings that the *)
(* code takes apart (the answer code of a question node) are sequences of  *)
(* one-character strings.  An option text is the sequence of its           *)
(* space-separated words.  Python's None is the string "None" where the    *)
(* other values are strings, and a separate flag where they are not.       *)
(* Widget state (which buttons are enabled, what the spin controls show)   *)
(* is not modelled: a handler is modelled by its own code.                 *)
(***************************************************************************)
EXTENDS Integers, Sequences, FiniteSets, TLC

VARIABLES
    test,           \* TestController.test : Test (title, questions, current_question_index)
    test_file,      \* TestController.test_file : path or "None"
    progress_file,  \* TestController.progress_file : file name or "None"
    store,          \* the progress files on disk, by file name
    pc,             \* where the application is: idle, in a modal dialog, or closed
    last            \* the last handler that ran, its input and what it returned

vars == <<test, test_file, progress_file, store, pc, last>>

-----------------------------------------------------------------------------
(* Bounds of the model *)

\* question nodes in one bank file of the session specification
MaxQ == 2
\* option nodes of a question node of the decoder specifications
MaxOpts == 3
\* characters of an answer code of the decoder specifications
MaxCodeLen == 6

-----------------------------------------------------------------------------
(* Python helpers *)

Range(s) == {s[i] : i \in 1..Len(s)}

\* enumerate(): the 0-based indices of a sequence of length n
Indices(n) == 0..(n - 1)

\* list comparison of (pos, index) tuples, as list.sort() compares them
TupleLess(a, b) == a[1] < b[1] \/ (a[1] = b[1] /\ a[2] < b[2])

\* key comparison of sorted(enumerate(values), key=lambda x: x[1])
KeyLess(a, b) == a[2] < b[2]

\* insertion of x into the sorted sequence s, after every element that is
\* not greater than it (the sort is stable)
RECURSIVE InsertTuple(_, _)
InsertTuple(x, s) ==
    IF s = <<>> THEN <<x>>
    ELSE IF TupleLess(x, Head(s)) THEN <<x>> \o s
    ELSE <<Head(s)>> \o InsertTuple(x, Tail(s))

RECURSIVE InsertKey(_, _)
InsertKey(x, s) ==
    IF s = <<>> THEN <<x>>
    ELSE IF KeyLess(x, Head(s)) THEN <<x>> \o s
    ELSE <<Head(s)>> \o InsertKey(x, Tail(s))

\* sorted_options.sort()
RECURSIVE SortTuples(_)
SortTuples(s) ==
    IF s = <<>> THEN <<>>
    ELSE InsertTuple(s[Len(s)], SortTuples(SubSeq(s, 1, Len(s) - 1)))

\* sorted(enumerate(user_input_values), key=lambda x: x[1])
RECURSIVE SortByKey(_)
SortByKey(s) ==
    IF s = <<>> THEN <<>>
    ELSE InsertKey(s[Len(s)], SortByKey(SubSeq(s, 1, Len(s) - 1)))

\* sorted() of a list of integers
RECURSIVE InsertInt(_, _)
InsertInt(x, s) ==
    IF s = <<>> THEN <<x>>
    ELSE IF x < Head(s) THEN <<x>> \o s
    ELSE <<Head(s)>> \o InsertInt(x, Tail(s))

RECURSIVE sorted(_)
sorted(s) ==
    IF s = <<>> THEN <<>>
    ELSE InsertInt(s[Len(s)], sorted(SubSeq(s, 1, Len(s) - 1)))

\* textwrap.wrap(text, 2) of a text without whitespace: chunks of two
\* characters, the last one shorter when the length is odd, [] for ""
RECURSIVE wrap(_)
wrap(s) ==
    IF Len(s) = 0 THEN <<>>
    ELSE IF Len(s) <= 2 THEN <<s>>
    ELSE <<SubSeq(s, 1, 2)>> \o wrap(SubSeq(s, 3, Len(s)))

Digits == {"0", "1", "2", "3", "4", "5", "6", "7", "8", "9"}

DigitVal(c) ==
    CASE c = "0" -> 0 [] c = "1" -> 1 [] c = "2" -> 2 [] c = "3" -> 3
      [] c = "4" -> 4 [] c = "5" -> 5 [] c = "6" -> 6 [] c = "7" -> 7
      [] c = "8" -> 8 [] c = "9" -> 9

\* int(p) raises ValueError unless p is a numeral
IsNumeral(p) == Len(p) > 0 /\ \A i \in 1..Len(p) : p[i] \in Digits

\* int(p) of a numeral
RECURSIVE int(_)
int(p) ==
    IF Len(p) = 0 THEN 0
    ELSE 10 * int(SubSeq(p, 1, Len(p) - 1)) + DigitVal(p[Len(p)])

-----------------------------------------------------------------------------
(* 1. MODEL: Question and Test *)

PyBool(b) == IF b THEN "True" ELSE "False"

\* Question.__init__
Question(q_text, q_type, options, correct_indices) ==
    [ text                |-> q_text,
      type                |-> q_type,
      options             |-> options,
      correct_indices     |-> correct_indices,
      user_answer_indices |-> <<>>,
      user_input          |-> <<>>,
      is_answered         |-> FALSE,
      is_correct          |-> "None" ]

\* json.dump / json.load of the values of a progress entry: None is written
\* as null, True as true, False as false, and read back
JsonDump(v) ==
    CASE v = "None" -> "null" [] v = "True" -> "true" [] v = "False" -> "false"

JsonLoad(j) ==
    CASE j = "null" -> "None" [] j = "true" -> "True" [] j = "false" -> "False"

\* Question.to_dict, as json.dump writes it
to_dict(q) ==
    [ text                |-> q.text,
      user_answer_indices |-> q.user_answer_indices,
      user_input          |-> q.user_input,
      is_answered         |-> JsonDump(PyBool(q.is_answered)),
      is_correct          |-> JsonDump(q.is_correct) ]

\* Question.from_dict, on an entry json.load has read
from_dict(q, data) ==
    [ q EXCEPT !.user_answer_indices = data.user_answer_indices,
               !.user_input          = data.user_input,
               !.is_answered         = (JsonLoad(data.is_answered) = "True"),
               !.is_correct          = JsonLoad(data.is_correct) ]

\* Test.__init__
Test == [ questions |-> <<>>, current_question_index |-> 0, title |-> "Practice Test" ]

\* the AnswerState of a question
AnswerState(q) ==
    [ user_answer_indices |-> q.user_answer_indices,
      user_input          |-> q.user_input,
      is_answered         |-> q.is_answered,
      is_correct          |-> q.is_correct ]

\* Test.num_correct, num_incorrect, num_answered
num_correct(t) == Cardinality({i \in 1..Len(t.questions) : t.questions[i].is_correct = "True"})
num_incorrect(t) == Cardinality({i \in 1..Len(t.questions) : t.questions[i].is_correct = "False"})
num_answered(t) == Cardinality({i \in 1..Len(t.questions) : t.questions[i].is_answered})

-----------------------------------------------------------------------------
(* 2. CONTROLLER: the decoder *)

\* A question node <c> of the bank:
\*   t      the text of its <t> child, "None" when the child or its text is missing
\*   p      the stripped text under its <p> child, "None" when there is no <p>
\*   opts   the stripped texts of its r/o descendants, each a sequence of words
\*   c      "missing" (no <c> child), "empty" (its text is None) or "text"
\*   code   the text of the <c> child when c = "text"
NoQuestion == Question("", "None", <<>>, <<>>)

\* options[0].split(): one option per word
split(option) == [i \in 1..Len(option) |-> <<option[i]>>]

\* line 128: len(options) == 1 and ' ' in options[0]
OrderingOptions(options) ==
    IF Len(options) = 1 /\ Len(options[1]) > 1 THEN split(options[1]) ELSE options

\* mutant of ChoiceCorrect: the characters equal to '1' are taken
RECURSIVE ChoiceCorrect_marker_one(_, _)
ChoiceCorrect_marker_one(answer_code, i) ==
    IF i > Len(answer_code) THEN <<>>
    ELSE (IF answer_code[i] = "1" THEN <<i - 1>> ELSE <<>>)
         \o ChoiceCorrect_marker_one(answer_code, i + 1)

\* line 123: the indices of the characters equal to '2'
RECURSIVE ChoiceCorrect(_, _)
ChoiceCorrect(answer_code, i) ==
    IF i > Len(answer_code) THEN <<>>
    ELSE (IF answer_code[i] = "2" THEN <<i - 1>> ELSE <<>>)
         \o ChoiceCorrect(answer_code, i + 1)

\* mutant of Position: the group "00" is read as the number 0
Position_zero(p, num_options) == int(p)

\* line 133: int(p) if p != '00' else num_options
Position(p, num_options) == IF p = <<"0", "0">> THEN num_options ELSE int(p)

answer_positions(answer_code, num_options) ==
    [k \in 1..Len(wrap(answer_code)) |-> Position(wrap(answer_code)[k], num_options)]

\* lines 135-138: (pos, i) for the positions whose index is below num_options
sorted_options(positions, num_options) ==
    [k \in 1..(IF Len(positions) < num_options THEN Len(positions) ELSE num_options)
        |-> <<positions[k], k - 1>>]

\* lines 131-141
OrderingCorrect(answer_code, num_options) ==
    LET s == SortTuples(sorted_options(answer_positions(answer_code, num_options), num_options))
    IN  [k \in 1..Len(s) |-> s[k][2]]

\* line 133 raises ValueError when a group is not a numeral
OrderingRaises(answer_code) ==
    \E k \in 1..Len(wrap(answer_code)) :
        /\ wrap(answer_code)[k] # <<"0", "0">>
        /\ ~IsNumeral(wrap(answer_code)[k])

\* line 143: if q_type and options and correct_indices
Appended(q_type, options, correct_indices) ==
    q_type # "None" /\ options # <<>> /\ correct_indices # <<>>

\* lines 101-144, one turn of the loop: status is "skip" (continue, or not
\* appended), "raise" (an exception no handler of the load catches) or "ok"
DecodeNode(node) ==
    IF node.t = "None" THEN [status |-> "skip", q |-> NoQuestion]
    ELSE IF node.p = "None" THEN [status |-> "skip", q |-> NoQuestion]
    ELSE IF node.c = "missing" THEN [status |-> "raise", q |-> NoQuestion]
    ELSE IF node.t = "1" THEN
        IF node.c = "empty" THEN [status |-> "raise", q |-> NoQuestion]
        ELSE LET correct == ChoiceCorrect(node.code, 1)
                 q_type  == IF Len(correct) = 1 THEN "single" ELSE "multiple"
             IN  IF Appended(q_type, node.opts, correct)
                 THEN [status |-> "ok", q |-> Question(node.p, q_type, node.opts, correct)]
                 ELSE [status |-> "skip", q |-> NoQuestion]
    ELSE IF node.t = "6" THEN
        IF node.c = "empty" \/ OrderingRaises(node.code)
        THEN [status |-> "raise", q |-> NoQuestion]
        ELSE LET options == OrderingOptions(node.opts)
                 correct == OrderingCorrect(node.code, Len(options))
             IN  IF Appended("ordering", options, correct)
                 THEN [status |-> "ok", q |-> Question(node.p, "ordering", options, correct)]
                 ELSE [status |-> "skip", q |-> NoQuestion]
    ELSE [status |-> "skip", q |-> NoQuestion]

\* line 100: the loop over the question nodes, in document order; it stops
\* at the first node that raises
RECURSIVE DecodeNodes(_)
DecodeNodes(nodes) ==
    IF nodes = <<>> THEN [raised |-> FALSE, questions |-> <<>>]
    ELSE LET d == DecodeNode(Head(nodes))
         IN  IF d.status = "raise" THEN [raised |-> TRUE, questions |-> <<>>]
             ELSE LET rest == DecodeNodes(Tail(nodes))
                  IN  [ raised    |-> rest.raised,
                        questions |-> IF rest.raised THEN <<>>
                                      ELSE (IF d.status = "ok" THEN <<d.q>> ELSE <<>>)
                                           \o rest.questions ]

\* line 79: root.find('.//p/t').text or "Practice Test"; the title is "None"
\* when the <t> element has no text
Title(title) == IF title = "None" \/ title = "" THEN "Practice Test" ELSE title

\* A bank file:
\*   kind   "io_error" (the file cannot be opened), "parse_error" (not
\*          well-formed), "no_container" (no <c> under the root) or "ok"
\*   ns     the tag names of the document are namespace-qualified
\*   title  the text of p/t, "None" when it has none, "missing" when there is
\*          no such element
\*   nodes  the <c> children of the question container

\* lines 73-76: the tree iterparse builds, its tags stripped of the namespace
iterparse_stripped(content) == [content EXCEPT !.ns = FALSE]

\* line 77: root is parsed again from the text of the file, so its tags are
\* as the file has them; the tree of lines 73-76 is not used
fromstring(content) == content

\* line 79: root.find('.//p/t') matches unqualified tag names only
find_title(root) == IF root.ns THEN "missing" ELSE root.title

\* lines 69-148: what the load does before it replaces anything: ret is
\* "False" (an error reported, return False), "raise" (an exception leaves
\* the method) or "True" (new_test is to be installed)
Decode(content) ==
    IF content.kind \in {"io_error", "parse_error"}
    THEN [ret |-> "False", new_test |-> Test]
    ELSE IF find_title(fromstring(content)) = "missing"
    THEN [ret |-> "raise", new_test |-> Test]
    ELSE IF content.kind = "no_container" THEN [ret |-> "False", new_test |-> Test]
    ELSE LET d == DecodeNodes(content.nodes)
         IN  IF d.raised THEN [ret |-> "raise", new_test |-> Test]
             ELSE IF d.questions = <<>> THEN [ret |-> "False", new_test |-> Test]
             ELSE [ ret      |-> "True",
                    new_test |-> [ questions              |-> d.questions,
                                   current_question_index |-> 0,
                                   title                  |-> Title(find_title(fromstring(content))) ] ]

-----------------------------------------------------------------------------
(* 2. CONTROLLER: the session engine *)

\* lines 153-154: os.path.basename, os.path.splitext and the suffix
\* ".progress.json", on the paths of the model
progress_file_of(filepath) ==
    CASE filepath = "d1/bank.xml" -> "bank.progress.json"

\* A progress file:
\*   exists   os.path.exists
\*   shape    "object" (a JSON object with an index and a list of entries, as
\*            save_progress writes it), "unparseable" (not JSON),
\*            "not_object" (JSON, but a list at the top), "no_questions" (an
\*            object without 'questions') or "entry_no_text" (an entry of
\*            'questions' is an object without 'text')
\* a progress file that does not exist
NoFile ==
    [exists |-> FALSE, shape |-> "object", current_question_index |-> 0, questions |-> <<>>]

\* TestController.save_progress, lines 166-171: the content written
progress_data(t) ==
    [ exists                 |-> TRUE,
      shape                  |-> "object",
      current_question_index |-> t.current_question_index,
      questions              |-> [i \in 1..Len(t.questions) |-> to_dict(t.questions[i])] ]

\* line 183: {q['text']: q for q in progress_data['questions']}: the keys
HasSaved(entries, text) == \E k \in 1..Len(entries) : entries[k].text = text

\* line 183: the value of a key is the last entry that has it
saved_questions_map(entries, text) ==
    LET k == CHOOSE k \in 1..Len(entries) :
                 /\ entries[k].text = text
                 /\ \A m \in (k + 1)..Len(entries) : entries[m].text # text
    IN  entries[k]

\* check_and_load_progress, lines 180-187: the merge of the stored progress
merge_progress(t, data) ==
    [ t EXCEPT
        !.questions = [i \in 1..Len(t.questions) |->
            IF HasSaved(data.questions, t.questions[i].text)
            THEN from_dict(t.questions[i],
                           saved_questions_map(data.questions, t.questions[i].text))
            ELSE t.questions[i]],
        !.current_question_index = data.current_question_index ]

\* mutant of check_and_load_progress: the stored progress is merged whatever
\* the answer to the dialog
check_and_load_progress_unasked(t, data, yes) ==
    [test |-> merge_progress(t, data), ret |-> PyBool(yes)]

\* check_and_load_progress, lines 176-189, after the dialog: the test after
\* it and how it ends: "False" (the answer was no), "True" (merged), "error"
\* (JSONDecodeError or KeyError, caught and reported) or "raise" (another
\* exception, which leaves the method and the load)
check_and_load_progress(t, data, yes) ==
    IF ~yes THEN [test |-> t, ret |-> "False"]
    ELSE IF data.shape = "unparseable" THEN [test |-> t, ret |-> "error"]
    ELSE IF data.shape = "not_object" THEN [test |-> t, ret |-> "raise"]
    ELSE IF data.shape \in {"no_questions", "entry_no_text"} THEN [test |-> t, ret |-> "error"]
    ELSE [test |-> merge_progress(t, data), ret |-> "True"]

\* TestController.get_current_question, line 192: there is a current question
HasCurrent(t) ==
    0 <= t.current_question_index /\ t.current_question_index < Len(t.questions)

\* TestController.get_current_question, line 193
get_current_question(t) == t.questions[t.current_question_index + 1]

\* mutant of is_correct: every type is compared as a set
is_correct_unordered(q_type, user_answer, correct_indices) ==
    sorted(user_answer) = sorted(correct_indices)

\* mutant of is_correct: every type is compared as a sequence
is_correct_ordered(q_type, user_answer, correct_indices) ==
    user_answer = correct_indices

\* evaluate_answer, lines 203-206
is_correct(q_type, user_answer, correct_indices) ==
    IF q_type = "ordering"
    THEN user_answer = correct_indices
    ELSE sorted(user_answer) = sorted(correct_indices)

\* mutant of evaluated: the answer is stored and flagged, the verdict is not
evaluated_no_verdict(q, user_answer, user_raw_input) ==
    [ q EXCEPT !.user_answer_indices = user_answer,
               !.user_input          = user_raw_input,
               !.is_answered         = TRUE ]

\* evaluate_answer, lines 199-206, on the current question
evaluated(q, user_answer, user_raw_input) ==
    [ q EXCEPT !.user_answer_indices = user_answer,
               !.user_input          = user_raw_input,
               !.is_answered         = TRUE,
               !.is_correct          = PyBool(is_correct(q.type, user_answer, q.correct_indices)) ]

\* TestController.evaluate_answer: the test after it and what it returns
evaluate_answer(t, user_answer, user_raw_input) ==
    IF ~HasCurrent(t) THEN [test |-> t, ret |-> "None"]
    ELSE LET q == evaluated(get_current_question(t), user_answer, user_raw_input)
         IN  [ test |-> [t EXCEPT !.questions[t.current_question_index + 1] = q],
               ret  |-> q.is_correct ]

\* mutant of next_question: past the last question it goes back to the first
next_question_wraps(t) ==
    IF t.current_question_index < Len(t.questions) - 1
    THEN [ test |-> [t EXCEPT !.current_question_index = t.current_question_index + 1],
           ret  |-> "True" ]
    ELSE [test |-> [t EXCEPT !.current_question_index = 0], ret |-> "True"]

\* TestController.next_question
next_question(t) ==
    IF t.current_question_index < Len(t.questions) - 1
    THEN [ test |-> [t EXCEPT !.current_question_index = t.current_question_index + 1],
           ret  |-> "True" ]
    ELSE [test |-> t, ret |-> "False"]

\* TestController.previous_question
previous_question(t) ==
    IF t.current_question_index > 0
    THEN [ test |-> [t EXCEPT !.current_question_index = t.current_question_index - 1],
           ret  |-> "True" ]
    ELSE [test |-> t, ret |-> "False"]

-----------------------------------------------------------------------------
(* 3. VIEW: the handlers of TestFrame *)

\* mutant of unique_order: the numbers are counted, not the distinct ones
unique_order_by_length(user_input_values, options) ==
    Len(user_input_values) = Len(options)

\* on_submit, line 488: the order numbers are accepted
unique_order(user_input_values, options) ==
    Cardinality(Range(user_input_values)) = Len(options)

\* on_submit, lines 491-492: the option indices in the order of their numbers
ordering_indices(user_input_values) ==
    LET s == SortByKey([k \in 1..Len(user_input_values) |-> <<k - 1, user_input_values[k]>>])
    IN  [k \in 1..Len(s) |-> s[k][1]]

\* on_submit, line 495: the indices of the controls that are set
RECURSIVE checked_indices(_, _)
checked_indices(values, i) ==
    IF i > Len(values) THEN <<>>
    ELSE (IF values[i] THEN <<i - 1>> ELSE <<>>) \o checked_indices(values, i + 1)

\* TestFrame.on_submit on the values of the answer controls: the test after
\* it, and "rejected" (the error box of line 489), "None" (no current
\* question) or what evaluate_answer returned
on_submit(t, values) ==
    IF ~HasCurrent(t) THEN [test |-> t, ret |-> "None"]
    ELSE IF get_current_question(t).type = "ordering"
    THEN IF ~unique_order(values, get_current_question(t).options)
         THEN [test |-> t, ret |-> "rejected"]
         ELSE evaluate_answer(t, ordering_indices(values), values)
    ELSE evaluate_answer(t, checked_indices(values, 1), checked_indices(values, 1))

\* show_summary, line 520: [q for q in questions if not q.is_correct]
RECURSIVE incorrect_questions(_)
incorrect_questions(questions) ==
    IF questions = <<>> THEN <<>>
    ELSE (IF Head(questions).is_correct # "True" THEN <<Head(questions)>> ELSE <<>>)
         \o incorrect_questions(Tail(questions))

\* mutant of reset: only the flag is_answered is cleared
reset_flag_only(q) == [q EXCEPT !.is_answered = FALSE]

\* retry_incorrect, line 534
reset(q) ==
    [ q EXCEPT !.user_answer_indices = <<>>, !.user_input = <<>>,
               !.is_answered = FALSE, !.is_correct = "None" ]

\* TestFrame.retry_incorrect
retry_incorrect(t, subset) ==
    [ t EXCEPT !.questions = [i \in 1..Len(subset) |-> reset(subset[i])],
               !.current_question_index = 0 ]

-----------------------------------------------------------------------------
(* Inputs *)

Paths == {"d1/bank.xml"}

ProgressFiles == {progress_file_of(f) : f \in Paths}

Node(t, p, opts, c, code) == [t |-> t, p |-> p, opts |-> opts, c |-> c, code |-> code]

\* option texts of one word each
Words == <<"A", "B", "C", "D", "E">>
Options(n) == [i \in 1..n |-> <<Words[i]>>]

\* the question nodes of the banks of the session specification: a choice
\* question, an ordering question and a choice node without a correct option
SessionNodes ==
    { Node("1", "Q1", Options(1), "text", <<"2">>),
      Node("6", "Q2", Options(2), "text", <<"0", "2", "0", "1">>),
      Node("1", "Q3", Options(2), "text", <<"1", "1">>) }

\* a question node without an answer element
NoAnswerNode == Node("1", "Q4", Options(2), "missing", <<>>)

Bank(title, nodes) == [kind |-> "ok", ns |-> FALSE, title |-> title, nodes |-> nodes]

Broken(kind) == [kind |-> kind, ns |-> FALSE, title |-> "Bank", nodes |-> <<>>]

SessionContents ==
    { Broken("io_error"), Broken("parse_error"), Broken("no_container"),
      Bank("Bank", <<NoAnswerNode>>) }
    \cup { Bank("Bank", nodes) : nodes \in UNION {[1..n -> SessionNodes] : n \in 0..MaxQ} }

\* what the answer controls of a question can hold: a spin control per
\* option with a value in 1..len(options) (line 414), a check box per
\* option, or the radio buttons of one group, of which one is set (lines
\* 423-426)
ControlValues(q) ==
    IF q.type = "ordering" THEN [1..Len(q.options) -> 1..Len(q.options)]
    ELSE IF q.type = "multiple" THEN [1..Len(q.options) -> BOOLEAN]
    ELSE { v \in [1..Len(q.options) -> BOOLEAN] :
             Cardinality({i \in 1..Len(q.options) : v[i]}) = 1 }

-----------------------------------------------------------------------------
(* The application *)

Ran(op, arg, ret) == [op |-> op, arg |-> arg, ret |-> ret]

\* App.OnInit: TestController.__init__, no progress file on disk yet
Init ==
    /\ test = Test
    /\ test_file = "None"
    /\ progress_file = "None"
    /\ store = [f \in ProgressFiles |-> NoFile]
    /\ pc = "idle"
    /\ last = Ran("init", <<>>, "None")

\* the application is started again; the progress files are as it left them
Launch ==
    /\ pc = "closed"
    /\ test' = Test
    /\ test_file' = "None"
    /\ progress_file' = "None"
    /\ pc' = "idle"
    /\ last' = Ran("init", <<>>, "None")
    /\ UNCHANGED store

\* mutant of installed: the decoded test replaces the active one before
\* the load is known to succeed
installed_before_checks(t, d) == d.new_test

\* load_new_test_from_file, lines 146-150: self.test after the load
installed(t, d) == IF d.ret = "True" THEN d.new_test ELSE t

\* TestFrame.on_open_file with the file chosen and what it holds:
\* load_new_test_from_file up to the dialog of check_and_load_progress.
\* arg is what the history keeps of the input.
on_open_file(filepath, content, arg) ==
    /\ pc = "idle"
    /\ LET d == Decode(content)
       IN  IF d.ret = "True"
           THEN /\ test' = installed(test, d)
                /\ test_file' = filepath
                /\ progress_file' = progress_file_of(filepath)
                /\ IF store[progress_file_of(filepath)].exists
                   THEN /\ pc' = "resume"
                        /\ last' = Ran("load", arg, "dialog")
                   ELSE /\ pc' = "idle"
                        /\ last' = Ran("load", arg, "True")
           ELSE /\ test' = installed(test, d)
                /\ last' = Ran("load", arg, d.ret)
                /\ UNCHANGED <<test_file, progress_file, pc>>
    /\ UNCHANGED store

\* check_and_load_progress, lines 176-187: the answer to "Resume Session?"
resume_answer(yes) ==
    /\ pc = "resume"
    /\ test' = check_and_load_progress(test, store[progress_file], yes).test
    /\ pc' = "idle"
    /\ last' = Ran("resume", <<>>, check_and_load_progress(test, store[progress_file], yes).ret)
    /\ UNCHANGED <<test_file, progress_file, store>>

\* mutant of OnSubmit: the progress file is written at every submit
OnSubmit_saving(values) ==
    /\ pc = "idle"
    /\ test' = on_submit(test, values).test
    /\ last' = Ran("on_submit", <<>>, on_submit(test, values).ret)
    /\ store' = [store EXCEPT ![progress_file] = progress_data(on_submit(test, values).test)]
    /\ UNCHANGED <<test_file, progress_file, pc>>

\* TestFrame.on_submit with the values of the answer controls
OnSubmit(values) ==
    /\ pc = "idle"
    /\ test' = on_submit(test, values).test
    /\ last' = Ran("on_submit", <<>>, on_submit(test, values).ret)
    /\ UNCHANGED <<test_file, progress_file, store, pc>>

\* TestFrame.on_next: next_question, and show_summary when it returns False
OnNext ==
    /\ pc = "idle"
    /\ test' = next_question(test).test
    /\ last' = Ran("on_next", <<>>, next_question(test).ret)
    /\ pc' = IF next_question(test).ret = "False"
                /\ incorrect_questions(test.questions) # <<>>
             THEN "summary" ELSE "idle"
    /\ UNCHANGED <<test_file, progress_file, store>>

\* show_summary, line 524: the answer to "retry the questions you got wrong?"
summary_answer(yes) ==
    /\ pc = "summary"
    /\ test' = IF yes THEN retry_incorrect(test, incorrect_questions(test.questions))
               ELSE test
    /\ pc' = "idle"
    /\ last' = Ran("summary", <<>>, PyBool(yes))
    /\ UNCHANGED <<test_file, progress_file, store>>

\* TestFrame.on_prev
OnPrev ==
    /\ pc = "idle"
    /\ test' = previous_question(test).test
    /\ last' = Ran("on_prev", <<>>, previous_question(test).ret)
    /\ UNCHANGED <<test_file, progress_file, store, pc>>

\* TestFrame.on_close: save_progress when a bank is loaded, then Destroy
OnClose ==
    /\ pc = "idle"
    /\ store' = IF test_file # "None" /\ progress_file # "None"
                THEN [store EXCEPT ![progress_file] = progress_data(test)]
                ELSE store
    /\ pc' = "closed"
    /\ last' = Ran("on_close", <<>>, "None")
    /\ UNCHANGED <<test, test_file, progress_file>>

OpenFile ==
    \E filepath \in Paths, content \in SessionContents : on_open_file(filepath, content, <<>>)

ResumeDialog == \E yes \in BOOLEAN : resume_answer(yes)

Submit ==
    /\ HasCurrent(test)
    /\ \E values \in ControlValues(get_current_question(test)) : OnSubmit(values)

SummaryDialog == \E yes \in BOOLEAN : summary_answer(yes)

Next ==
    \/ Launch
    \/ OpenFile
    \/ ResumeDialog
    \/ Submit
    \/ OnNext
    \/ SummaryDialog
    \/ OnPrev
    \/ OnClose

Spec == Init /\ [][Next]_vars

-----------------------------------------------------------------------------
(* The session with a progress file that something else has written *)

\* the shapes of a progress file that save_progress does not write
MalformedShapes == {"unparseable", "not_object", "no_questions", "entry_no_text"}

Malformed(shape) ==
    [exists |-> TRUE, shape |-> shape, current_question_index |-> 0, questions |-> <<>>]

\* between two runs of the application a progress file is replaced by a
\* malformed one
DamageStore ==
    /\ pc = "closed"
    /\ \E f \in ProgressFiles, shape \in MalformedShapes :
          /\ store[f] # Malformed(shape)
          /\ store' = [store EXCEPT ![f] = Malformed(shape)]
    /\ UNCHANGED <<test, test_file, progress_file, pc, last>>

NextStore ==
    \/ Next
    \/ DamageStore

SpecStore == Init /\ [][NextStore]_vars

-----------------------------------------------------------------------------
(* The decoder on every question node within the bounds *)

\* the characters of the answer codes
CodeChars == {"0", "1", "2"}

Codes == UNION {[1..n -> CodeChars] : n \in 1..MaxCodeLen}

\* n options of one word each, or a single option of k words
OptionLists ==
    { Options(n) : n \in 0..MaxOpts }
    \cup { <<[i \in 1..k |-> Words[i]]>> : k \in 2..MaxOpts }

DecoderNodes ==
    { Node(t, "Q1", opts, "text", code) :
        t \in {"1", "6"}, opts \in OptionLists, code \in Codes }

\* a bank of one question node is opened in the application just started
DecodeFile ==
    /\ last.op = "init"
    /\ \E node \in DecoderNodes :
          on_open_file("d1/bank.xml", Bank("Bank", <<node>>), node)

SpecDecode == Init /\ [][DecodeFile]_vars

\* the same, the history keeping nothing of the node
LoadQuestion ==
    /\ last.op = "init"
    /\ \E node \in DecoderNodes :
          on_open_file("d1/bank.xml", Bank("Bank", <<node>>), <<>>)

\* the index sequences without repetition over the options of a question
AnswerLists(q) ==
    { s \in UNION {[1..n -> Indices(Len(q.options))] : n \in 0..Len(q.options)} :
        \A i, j \in 1..Len(s) : i # j => s[i] # s[j] }

\* TestController.evaluate_answer called with a list of option indices
EvaluateAnswer ==
    /\ pc = "idle"
    /\ HasCurrent(test)
    /\ \E user_answer \in AnswerLists(get_current_question(test)) :
          /\ test' = evaluate_answer(test, user_answer, user_answer).test
          /\ last' = Ran("evaluate_answer", <<>>,
                         evaluate_answer(test, user_answer, user_answer).ret)
    /\ UNCHANGED <<test_file, progress_file, store, pc>>

NextAnswer ==
    \/ LoadQuestion
    \/ Submit
    \/ EvaluateAnswer

SpecAnswer == Init /\ [][NextAnswer]_vars

-----------------------------------------------------------------------------
(* The decoder on whole banks *)

\* the title element of a bank: with a text, without a text, or not there
Titles == {"Bank", "None", "missing"}

\* question nodes: a choice and an ordering question, and nodes without a
\* type code, with a type code that is not known, without a prompt,
\* without an answer element, with an ordering group that is not a number,
\* without options and without a correct option
BankNodes ==
    { Node("1", "Q1", Options(2), "text", <<"2", "1">>),
      Node("6", "Q2", Options(2), "text", <<"0", "2", "0", "1">>),
      Node("None", "Q3", Options(2), "text", <<"2", "1">>),
      Node("9", "Q4", Options(2), "text", <<"2", "1">>),
      Node("1", "None", Options(2), "text", <<"2", "1">>),
      Node("1", "Q5", Options(2), "missing", <<>>),
      Node("6", "Q6", Options(2), "text", <<"0", "x", "0", "1">>),
      Node("1", "Q7", Options(0), "text", <<"2">>),
      Node("1", "Q8", Options(2), "text", <<"1", "1">>) }

Banks ==
    { [kind |-> "ok", ns |-> ns, title |-> title, nodes |-> nodes] :
        ns \in BOOLEAN, title \in Titles,
        nodes \in UNION {[1..n -> BankNodes] : n \in 0..MaxQ} }

\* a bank is opened in the application just started; the history holds it
DecodeBank ==
    /\ last.op = "init"
    /\ \E content \in Banks : on_open_file("d1/bank.xml", content, content)

SpecBank == Init /\ [][DecodeBank]_vars

-----------------------------------------------------------------------------
(* The session on one bank file that does not change *)

\* a bank of a choice question and an ordering question
FixedBank ==
    Bank("Bank", << Node("1", "Q1", Options(1), "text", <<"2">>),
                    Node("6", "Q2", Options(2), "text", <<"0", "2", "0", "1">>) >>)

\* TestFrame.on_open_file: the file chosen is the bank, as it always was
OpenFixed == on_open_file("d1/bank.xml", FixedBank, <<>>)

NextFixed ==
    \/ Launch
    \/ OpenFixed
    \/ ResumeDialog
    \/ Submit
    \/ OnNext
    \/ SummaryDialog
    \/ OnPrev
    \/ OnClose

SpecFixed == Init /\ [][NextFixed]_vars

-----------------------------------------------------------------------------
(* Properties *)

Current == get_current_question(test)

\* the AnswerState a progress entry holds
StoredState(entry) ==
    [ user_answer_indices |-> entry.user_answer_indices,
      user_input          |-> entry.user_input,
      is_answered         |-> (entry.is_answered = "true"),
      is_correct          |-> CASE entry.is_correct = "true"  -> "True"
                                [] entry.is_correct = "false" -> "False"
                                [] entry.is_correct = "null"  -> "None" ]

Distinct(values) == \A i, j \in 1..Len(values) : i # j => values[i] # values[j]

\* C1: once a question is answered, a further submit on it, with any
\* answer, changes nothing of the test (its AnswerState stays as it was
\* and it is not evaluated again).
C1_ResubmitIsNoOp ==
    [][ (pc = "idle" /\ HasCurrent(test) /\ Current.is_answered
         /\ last'.op = "on_submit")
        => test' = test ]_vars

\* C2: a submit on an ordering question whose order numbers are not
\* pairwise distinct is rejected and leaves the test (every AnswerState
\* and the cursor) as it was, and after it every submit of pairwise
\* distinct numbers on that question is accepted and evaluated.
C2_DuplicateRanksRejected ==
    [][ (pc = "idle" /\ HasCurrent(test) /\ Current.type = "ordering")
        => \A values \in ControlValues(Current) :
              (OnSubmit(values) /\ ~Distinct(values))
              => /\ test' = test
                 /\ last'.ret = "rejected"
                 /\ \A again \in ControlValues(Current) :
                       Distinct(again)
                       => /\ on_submit(test', again).ret \in {"True", "False"}
                          /\ get_current_question(on_submit(test', again).test).is_answered
                          /\ get_current_question(on_submit(test', again).test).user_input = again
      ]_vars

\* C2 witness: duplicate order numbers were rejected on an unanswered
\* ordering question.
C2_Witness ==
    /\ last.op = "on_submit" /\ last.ret = "rejected"
    /\ HasCurrent(test) /\ Current.type = "ordering" /\ ~Current.is_answered

\* the progress file of the loaded bank
Stored == store[progress_file]

\* the session was resumed from the progress file, which is as it was read
Resumed == last.op = "resume" /\ last.ret = "True"

\* the snapshot was taken of the questions the test now holds: the same
\* texts in the same order
SameBank ==
    /\ Len(Stored.questions) = Len(test.questions)
    /\ \A i \in 1..Len(test.questions) : Stored.questions[i].text = test.questions[i].text

\* C3: after a resume onto the re-decoded bank the snapshot was taken of,
\* every question has the AnswerState it had when the snapshot was taken,
\* also when several questions share a text.
C3_RoundTrip ==
    (Resumed /\ SameBank)
    => \A i \in 1..Len(test.questions) :
          AnswerState(test.questions[i]) = StoredState(Stored.questions[i])

\* C4: after a resume, a live question carries the AnswerState of every
\* snapshot entry that has its text, wherever either stands, and a live
\* question whose text no entry has is unanswered.
C4_MergeByText ==
    Resumed
    => \A i \in 1..Len(test.questions) :
          /\ \A k \in 1..Len(Stored.questions) :
                Stored.questions[k].text = test.questions[i].text
                => AnswerState(test.questions[i]) = StoredState(Stored.questions[k])
          /\ (\A k \in 1..Len(Stored.questions) :
                Stored.questions[k].text # test.questions[i].text)
             => AnswerState(test.questions[i]) = AnswerState(NoQuestion)

\* the load of this content ends in an error: the file cannot be read or
\* parsed, has no question container, or yields no question
Fatal(content) ==
    \/ content.kind # "ok"
    \/ find_title(content) = "missing"
    \/ \E i \in 1..Len(content.nodes) : DecodeNode(content.nodes[i]).status = "raise"
    \/ \A i \in 1..Len(content.nodes) : DecodeNode(content.nodes[i]).status # "ok"

\* C5: a load that fails (it reports an error or raises) leaves the
\* active test, its cursor and AnswerStates, the bank file and the progress
\* file as they were; any other load installs a whole decoded test, at
\* cursor 0 and unanswered; and the loads that fail are those of a file
\* that cannot be read or parsed, has no question container or yields no
\* question.
C5_FailedLoadKeepsTest ==
    [][ last'.op = "load"
        => /\ last'.ret \in {"False", "raise"}
              => UNCHANGED <<test, test_file, progress_file, store, pc>>
           /\ last'.ret \notin {"False", "raise"}
              => /\ test'.current_question_index = 0
                 /\ Len(test'.questions) > 0
                 /\ \A i \in 1..Len(test'.questions) :
                       AnswerState(test'.questions[i]) = AnswerState(NoQuestion)
                 /\ test_file' \in Paths
                 /\ progress_file' \in ProgressFiles
           /\ last.op = "init"
              => \A filepath \in Paths, content \in SessionContents :
                    on_open_file(filepath, content, <<>>)
                    => (Fatal(content) <=> last'.ret \in {"False", "raise"})
      ]_vars

\* C5 witness: a load has failed while a test with an answered question
\* was active.
C5_Witness ==
    /\ last.op = "load" /\ last.ret \in {"False", "raise"}
    /\ test_file # "None"
    /\ \E i \in 1..Len(test.questions) : test.questions[i].is_answered

\* C6: advance moves the cursor by +1 and returns true below the last
\* index, and returns false at or past it leaving the cursor where it is;
\* retreat moves it by -1 and returns true above 0, and returns false at 0
\* leaving it where it is. The questions are not touched.
C6_AdvanceRetreat ==
    [][ /\ last'.op = "on_next"
           => /\ test'.questions = test.questions
              /\ IF test.current_question_index < Len(test.questions) - 1
                 THEN /\ test'.current_question_index = test.current_question_index + 1
                      /\ last'.ret = "True"
                 ELSE /\ test'.current_question_index = test.current_question_index
                      /\ last'.ret = "False"
        /\ last'.op = "on_prev"
           => /\ test'.questions = test.questions
              /\ IF test.current_question_index > 0
                 THEN /\ test'.current_question_index = test.current_question_index - 1
                      /\ last'.ret = "True"
                 ELSE /\ test'.current_question_index = test.current_question_index
                      /\ last'.ret = "False"
      ]_vars

\* C6 witness: advance has returned false at the last of two questions.
C6_Witness ==
    /\ last.op = "on_next" /\ last.ret = "False"
    /\ Len(test.questions) = 2 /\ test.current_question_index = 1

\* the arrangements of a list without repetition
Arrangements(s) == { p \in [1..Len(s) -> Range(s)] : Range(p) = Range(s) }

\* an ordering question was submitted and the submission accepted
OrderingSubmitted ==
    /\ last.op = "on_submit" /\ last.ret \in {"True", "False"}
    /\ HasCurrent(test) /\ Current.type = "ordering"

\* C7: an accepted submission on an ordering question leaves as
\* user_answer_indices the option indices in ascending order of their
\* numbers, and the question is correct exactly when that sequence equals
\* correct_indices element by element; the same indices in another order
\* are incorrect.
C7_OrderingEvaluation ==
    OrderingSubmitted
    => LET s == Current.user_answer_indices
           r == Current.user_input
           c == Current.correct_indices
       IN  /\ Len(s) = Len(Current.options)
           /\ Range(s) = Indices(Len(Current.options))
           /\ \A j, k \in 1..Len(s) : j < k => r[s[j] + 1] < r[s[k] + 1]
           /\ (Current.is_correct = "True")
              <=> (Len(s) = Len(c) /\ \A i \in 1..Len(s) : s[i] = c[i])
           /\ (Range(s) = Range(c) /\ s # c) => Current.is_correct = "False"
           /\ last.ret = Current.is_correct

\* C7 witness: the submitted order has the indices of the correct order in
\* another sequence, and is incorrect.
C7_Witness ==
    /\ OrderingSubmitted
    /\ Len(Current.options) = 3
    /\ Range(Current.user_answer_indices) = Range(Current.correct_indices)
    /\ Current.user_answer_indices # Current.correct_indices
    /\ Current.is_correct = "False"

\* a choice question was evaluated
ChoiceEvaluated ==
    /\ last.op \in {"on_submit", "evaluate_answer"}
    /\ HasCurrent(test) /\ Current.type \in {"single", "multiple"}

\* C8: a single or multiple question is correct exactly when the set of
\* submitted indices is the set of correct indices, and every arrangement
\* of the submitted indices evaluates the same.
C8_ChoiceEvaluation ==
    ChoiceEvaluated
    => /\ Current.is_answered
       /\ (Current.is_correct = "True")
          <=> (Range(Current.user_answer_indices) = Range(Current.correct_indices))
       /\ Current.is_correct \in {"True", "False"}
       /\ \A p \in Arrangements(Current.user_answer_indices) :
             evaluated(Current, p, p).is_correct = Current.is_correct

\* C8 witness: the correct indices of a multiple question were submitted
\* in another order than correct_indices has them, and are correct.
C8_Witness ==
    /\ ChoiceEvaluated /\ last.op = "evaluate_answer"
    /\ Current.type = "multiple"
    /\ Len(Current.user_answer_indices) >= 2
    /\ Current.user_answer_indices # Current.correct_indices
    /\ Current.is_correct = "True"

\* an ordering node was decoded into the one question of the test; the
\* history holds the node
OrderingDecoded ==
    /\ last.op = "load" /\ last.ret = "True"
    /\ last.arg.t = "6"
    /\ Len(test.questions) = 1

Decoded == test.questions[1]

\* the k-th 2-character group of an answer code and the number it writes
Group(code, k) == <<code[2 * k - 1], code[2 * k]>>

GroupValue(code, k) == 10 * DigitVal(code[2 * k - 1]) + DigitVal(code[2 * k])

\* the answer code is N 2-character groups, one of them "00"
OneZeroGroup(code, N) ==
    /\ Len(code) = 2 * N
    /\ Cardinality({k \in 1..N : Group(code, k) = <<"0", "0">>}) = 1

ZeroGroup(code, N) == CHOOSE k \in 1..N : Group(code, k) = <<"0", "0">>

\* C9, as claimed: whenever the answer code of an ordering node with N
\* options is N 2-character groups of which one is "00", the option of
\* that group is the last element of correct_indices.
C9_ZeroGroupLast ==
    (OrderingDecoded /\ OneZeroGroup(last.arg.code, Len(Decoded.options)))
    => Decoded.correct_indices[Len(Decoded.correct_indices)]
         = ZeroGroup(last.arg.code, Len(Decoded.options)) - 1

\* C9, amended: whenever the answer code of an ordering node with N
\* options is N 2-character groups of which one is "00" and every other
\* one is a position from 1 to N - 1, the option of the group "00" is the
\* last element of correct_indices.
C9_ZeroGroupLastAmongPositions ==
    LET N    == Len(Decoded.options)
        code == last.arg.code
    IN  (/\ OrderingDecoded
         /\ OneZeroGroup(code, N)
         /\ \A k \in 1..N : k # ZeroGroup(code, N) => GroupValue(code, k) \in 1..(N - 1))
        => /\ Len(Decoded.correct_indices) = N
           /\ Decoded.correct_indices[N] = ZeroGroup(code, N) - 1

\* C9 witness: options A, B, C with the answer code 020100 decode to the
\* correct order 1, 0, 2.
C9_Witness ==
    /\ OrderingDecoded
    /\ last.arg.opts = Options(3)
    /\ last.arg.code = <<"0", "2", "0", "1", "0", "0">>
    /\ Decoded.correct_indices = <<1, 0, 2>>

\* the position line 133 gives the k-th option of an ordering node
TargetPosition(code, N, k) ==
    IF Group(code, k) = <<"0", "0">> THEN N ELSE GroupValue(code, k)

\* C10: correct_indices of a decoded ordering question with N options is
\* every option index 0..N-1 once, in ascending order of the position of
\* its group, options of equal position in ascending order of index, for
\* every answer code.
C10_FullPermutation ==
    OrderingDecoded
    => LET N == Len(Decoded.options)
           c == Decoded.correct_indices
           code == last.arg.code
       IN  /\ Len(c) = N
           /\ Range(c) = Indices(N)
           /\ \A j, k \in 1..Len(c) :
                 j < k => \/ TargetPosition(code, N, c[j] + 1) < TargetPosition(code, N, c[k] + 1)
                          \/ /\ TargetPosition(code, N, c[j] + 1) = TargetPosition(code, N, c[k] + 1)
                             /\ c[j] < c[k]

\* a bank of one choice node was opened; the history holds the node
ChoiceLoaded == last.op = "load" /\ last.arg.t = "1"

\* the 0-based positions of the answer code that hold the marker '2'
Flagged(code) == {i \in Indices(Len(code)) : code[i + 1] = "2"}

\* C11: a choice node with at least one option and at least one flagged
\* position is decoded into a question whose correct_indices are the
\* flagged positions of the answer code, each once and ascending, and
\* whose type is single when one position is flagged and multiple when
\* more are; a choice node with no flagged position or no option leaves
\* no question (the load of the bank that has only this node fails).
C11_ChoiceDecode ==
    ChoiceLoaded
    => LET node == last.arg
       IN  IF Flagged(node.code) = {} \/ node.opts = <<>>
           THEN last.ret = "False" /\ test.questions = <<>>
           ELSE /\ last.ret = "True"
                /\ Len(test.questions) = 1
                /\ Decoded.options = node.opts
                /\ Range(Decoded.correct_indices) = Flagged(node.code)
                /\ Len(Decoded.correct_indices) = Cardinality(Flagged(node.code))
                /\ \A j, k \in 1..Len(Decoded.correct_indices) :
                      j < k => Decoded.correct_indices[j] < Decoded.correct_indices[k]
                /\ Cardinality(Flagged(node.code)) = 1 => Decoded.type = "single"
                /\ Cardinality(Flagged(node.code)) > 1 => Decoded.type = "multiple"

\* C11 witness: options A, B, C with the answer code 211 decode to a
\* single question whose correct_indices are 0.
C11_Witness ==
    /\ ChoiceLoaded /\ last.ret = "True"
    /\ last.arg.opts = Options(3)
    /\ last.arg.code = <<"2", "1", "1">>
    /\ Decoded.type = "single"
    /\ Decoded.correct_indices = <<0>>

\* the retry was taken at the summary
Retried == last.op = "summary" /\ last.ret = "True"

\* C12: after a retry the questions of the test are the questions of the
\* given subset (here the ones show_summary passes), in its order, each
\* with the text, type, options and correct_indices it had and with its
\* four answer fields cleared (no indices, no input, not answered, no
\* verdict), and the cursor is 0.
C12_RetryInstallsSubset ==
    [][ (pc = "summary" /\ Retried')
        => LET subset == incorrect_questions(test.questions)
           IN  /\ Len(test'.questions) = Len(subset)
               /\ \A i \in 1..Len(subset) :
                     /\ test'.questions[i].text = subset[i].text
                     /\ test'.questions[i].type = subset[i].type
                     /\ test'.questions[i].options = subset[i].options
                     /\ test'.questions[i].correct_indices = subset[i].correct_indices
                     /\ test'.questions[i].user_answer_indices = <<>>
                     /\ test'.questions[i].user_input = <<>>
                     /\ test'.questions[i].is_answered = FALSE
                     /\ test'.questions[i].is_correct = "None"
               /\ test'.current_question_index = 0
      ]_vars

\* C12 witness: a retry has left the ordering question alone in the test,
\* unanswered, at cursor 0.
C12_Witness ==
    /\ Retried
    /\ Len(test.questions) = 1
    /\ test.questions[1].text = "Q2"
    /\ ~test.questions[1].is_answered
    /\ test.current_question_index = 0

\* a question is unanswered: its four answer fields are as __init__ sets them
Unanswered(q) == AnswerState(q) = AnswerState(NoQuestion)

\* C13: with a bank loaded, the AnswerState of a question changes only
\* from unanswered to answered (correct or incorrect) by a submit on the
\* question at the cursor, and from answered to unanswered by a retry;
\* advance, retreat and the save at close change no AnswerState, and a
\* submit changes no other question than the one at the cursor.
C13_QuestionStateMachine ==
    [][ (test_file # "None" /\ pc \in {"idle", "summary"})
        => /\ last'.op \in {"on_next", "on_prev", "on_close"}
              => test'.questions = test.questions
           /\ last'.op = "on_submit"
              => /\ Len(test'.questions) = Len(test.questions)
                 /\ \A i \in 1..Len(test.questions) :
                       AnswerState(test'.questions[i]) # AnswerState(test.questions[i])
                       => /\ i = test.current_question_index + 1
                          /\ Unanswered(test.questions[i])
                          /\ test'.questions[i].is_answered
                          /\ test'.questions[i].is_correct \in {"True", "False"}
           /\ (last'.op = "summary" /\ last'.ret = "False")
              => test'.questions = test.questions
           /\ (last'.op = "summary" /\ last'.ret = "True")
              => \A i \in 1..Len(test'.questions) : Unanswered(test'.questions[i])
      ]_vars

\* every question of a test is unanswered and the cursor is 0
Fresh(t) ==
    /\ t.current_question_index = 0
    /\ \A i \in 1..Len(t.questions) : Unanswered(t.questions[i])

\* C14: a load that succeeds installs an unanswered test at cursor 0 and,
\* exactly when a progress file exists for the bank, stops at the
\* question whether to resume, with nothing merged; from there the only
\* step is the answer; after the answer no the test is as the load
\* installed it, unanswered and at cursor 0; and the test changes at the
\* answer only when the answer is yes.
C14_AskBeforeMerge ==
    [][ /\ (last'.op = "load" /\ last'.ret \notin {"False", "raise"})
           => /\ Fresh(test')
              /\ store[progress_file'].exists <=> pc' = "resume"
              /\ pc' = "resume" <=> last'.ret = "dialog"
        /\ pc = "resume"
           => /\ last'.op = "resume"
              /\ last'.ret = "False" => (test' = test /\ Fresh(test'))
              /\ test' # test => last'.ret = "True"
        /\ last'.op = "resume" => pc = "resume"
      ]_vars

\* C14 witness: the resume was declined while the progress file held an
\* answered entry of a question of the test, and the test is unanswered.
C14_Witness ==
    /\ last.op = "resume" /\ last.ret = "False"
    /\ Stored.exists
    /\ \E i \in 1..Len(test.questions), k \in 1..Len(Stored.questions) :
          /\ Stored.questions[k].text = test.questions[i].text
          /\ Stored.questions[k].is_answered = "true"
    /\ Fresh(test)

\* C15: when the progress file of the bank is malformed (not JSON, not an
\* object, without a list of questions, or with an entry without text),
\* the resume ends without an exception leaving the load, and the test is
\* the decoded one, unanswered and at cursor 0.
C15_MalformedStoreIsNoProgress ==
    (last.op = "resume" /\ Stored.shape # "object")
    => /\ last.ret # "raise"
       /\ Len(test.questions) > 0
       /\ Fresh(test)

\* a bank with unqualified tags and a title element was opened
BankLoaded ==
    /\ last.op = "load"
    /\ last.arg.kind = "ok" /\ ~last.arg.ns /\ last.arg.title # "missing"

\* a question node that has everything a question needs: a known type
\* code, a prompt, options, and an answer code that marks a correct option
\* (type 1) or is made of digits (type 6)
WellFormed(node) ==
    /\ node.t \in {"1", "6"}
    /\ node.p # "None"
    /\ node.opts # <<>>
    /\ node.c = "text"
    /\ node.code # <<>>
    /\ node.t = "1" => \E i \in 1..Len(node.code) : node.code[i] = "2"
    /\ node.t = "6" => \A i \in 1..Len(node.code) : node.code[i] \in Digits

\* C16: a bank whose question nodes include nodes without a type code,
\* with an unknown type code, without a prompt, without an answer code,
\* with an ordering group that is not a number or without options is
\* loaded without an exception, and the questions of the test are the
\* well-formed nodes of the bank, in their order (the load reports that
\* there is no valid question when there is none).
C16_AnomaliesSkipped ==
    BankLoaded
    => LET expected == SelectSeq(last.arg.nodes, WellFormed)
       IN  /\ last.ret # "raise"
           /\ expected = <<>> => last.ret = "False"
           /\ expected # <<>>
              => /\ last.ret = "True"
                 /\ Len(test.questions) = Len(expected)
                 /\ \A i \in 1..Len(expected) : test.questions[i].text = expected[i].p

\* the progress file holds the snapshot of a test: its cursor and, for
\* every question in order, its text and its AnswerState
SnapshotOf(file, t) ==
    /\ file.exists /\ file.shape = "object"
    /\ file.current_question_index = t.current_question_index
    /\ Len(file.questions) = Len(t.questions)
    /\ \A i \in 1..Len(t.questions) :
          /\ file.questions[i].text = t.questions[i].text
          /\ StoredState(file.questions[i]) = AnswerState(t.questions[i])

C18_NamespaceTolerant ==
    (last.op = "load" /\ last.arg.kind = "ok" /\ last.arg.ns)
    => LET plain == Decode([last.arg EXCEPT !.ns = FALSE])
       IN  /\ last.ret = plain.ret
           /\ plain.ret = "True" => test = plain.new_test

\* C19: a bank of well-formed question nodes, at least one, whose title
\* element is not there or has no text is loaded, and the title of the
\* test is "Practice Test".
C19_TitlePlaceholder ==
    (/\ last.op = "load"
     /\ last.arg.kind = "ok" /\ ~last.arg.ns
     /\ last.arg.title \in {"missing", "None"}
     /\ last.arg.nodes # <<>>
     /\ \A i \in 1..Len(last.arg.nodes) : WellFormed(last.arg.nodes[i]))
    => /\ last.ret = "True"
       /\ test.title = "Practice Test"
       /\ Len(test.questions) = Len(last.arg.nodes)

\* C20: whenever a bank is loaded, the cursor is the index of a question
\* of the test: 0 <= current_question_index <= len(questions) - 1.
C20_CursorInRange ==
    test_file # "None"
    => /\ 0 <= test.current_question_index
       /\ test.current_question_index <= Len(test.questions) - 1

\* the question that was current when the snapshot of the progress file
\* was taken
StoredCurrent == Stored.questions[Stored.current_question_index + 1]

\* C21: when the session is resumed on the bank it was saved on, the bank
\* being as it was, the current question is the question, by its text,
\* that was current when the window was closed, whatever was done before
\* the close, a retry included.
C21_ResumeRestoresPosition ==
    (Resumed /\ Stored.current_question_index < Len(Stored.questions))
    => /\ HasCurrent(test)
       /\ Current.text = StoredCurrent.text

\* C22: in every state, every question of the test is answered exactly
\* when it has a verdict (is_correct is True or False), an unanswered
\* question has no submitted indices and no input, and the counts satisfy
\* num_answered = num_correct + num_incorrect and num_answered <=
\* len(questions).
C22_AnswerStateConsistent ==
    /\ \A i \in 1..Len(test.questions) :
          LET q == test.questions[i]
          IN  /\ q.is_answered <=> q.is_correct \in {"True", "False"}
              /\ ~q.is_answered => (q.user_answer_indices = <<>> /\ q.user_input = <<>>)
    /\ num_answered(test) = num_correct(test) + num_incorrect(test)
    /\ num_answered(test) <= Len(test.questions)

\* C22 witness: a resumed test of two questions, one answered and
\* incorrect, the other unanswered.
C22_Witness ==
    /\ Resumed
    /\ Len(test.questions) = 2
    /\ num_answered(test) = 1 /\ num_incorrect(test) = 1 /\ num_correct(test) = 0
    /\ \E i \in 1..2 : Unanswered(test.questions[i])

\* a bank of one question node was decoded into the one question of the
\* test
QuestionDecoded ==
    /\ last.op = "load" /\ last.ret = "True"
    /\ Len(test.questions) = 1

\* C23: for every decoded question, single, multiple or ordering, and
\* every answer code, every index of correct_indices is an index of an
\* option of the question: 0 <= i < len(options).
C23_CorrectIndicesValid ==
    QuestionDecoded
    => \A k \in 1..Len(Decoded.correct_indices) :
          /\ 0 <= Decoded.correct_indices[k]
          /\ Decoded.correct_indices[k] < Len(Decoded.options)

\* a question is answered and incorrect
AnsweredIncorrect(q) == q.is_answered /\ q.is_correct = "False"

\* C24: the questions a retry taken at the summary installs are the
\* questions that are answered and incorrect when the summary is shown,
\* in their order; a question answered correctly and a question not
\* answered are not among them.
C24_RetryOnlyIncorrect ==
    [][ (pc = "summary" /\ Retried')
        => LET wrong == SelectSeq(test.questions, AnsweredIncorrect)
           IN  /\ Len(test'.questions) = Len(wrong)
               /\ \A i \in 1..Len(wrong) : test'.questions[i].text = wrong[i].text
      ]_vars

====
